---- MODULE Spec2Model ----
(***************************************************************************)
(* Model of core/jni/android/graphics/TextLayoutCache.cpp: the byte-       *)
(* budgeted text layout cache (TextLayoutCache), its key and value, and    *)
(* the bidi / Harfbuzz shaping pipeline the cache memoizes.                *)
(*                                                                         *)
(* Conventions.                                                            *)
(*  - An sp<TextLayoutCacheValue> is a sequence of length at most one:     *)
(*    <<>> is the NULL pointer, <<v>> a pointer to the value v.            *)
(*  - C arrays and Vectors are sequences; C index i is element i + 1.      *)
(*  - A jfloat holding a converted HB_Fixed is kept as the pair            *)
(*    <<numerator, FixedOne>>, i.e. the exact quotient numerator / 64.     *)
(*  - The bidi engine (ICU) and the shaper (Harfbuzz) are external: what   *)
(*    they answer is an input of the model, carried in an "env" record.    *)
(***************************************************************************)
EXTENDS Integers, Sequences, FiniteSets, TLC

(***************************************************************************)
(* Bounds of the model.                                                    *)
(***************************************************************************)
MaxCount == 2        \* longest text (code units) a caller passes
MaxHits == 1         \* hit counter values explored when debug is enabled
MaxThreads == 3      \* threads of the concurrent specification
MaxNeed == 11        \* most glyphs the shaper needs for one run
MaxRetries == 2      \* overflow retries counted (the count stops there)

(***************************************************************************)
(* Program constants.                                                      *)
(***************************************************************************)
kBidi_LTR == 0
kBidi_RTL == 1
kBidi_Default_LTR == 2
kBidi_Default_RTL == 3
kBidi_Force_LTR == 4
kBidi_Force_RTL == 5
kDirection_Mask == 1
UBIDI_DEFAULT_LTR == 254
UBIDI_DEFAULT_RTL == 255
FixedOne == 64
SizeofKey == 40          \* sizeof(TextLayoutCacheKey)
SizeofValue == 76        \* sizeof(TextLayoutCacheValue)
SizeofUChar == 2         \* sizeof(UChar), sizeof(jchar), sizeof(unsigned short)
SizeofJfloat == 4        \* sizeof(jfloat)
DefaultMaxSize == 262144 \* MB(DEFAULT_TEXT_LAYOUT_CACHE_SIZE_IN_MB)
UShortRange == 65536     \* values of a jchar / unsigned short

DirModes == {kBidi_LTR, kBidi_RTL, kBidi_Default_LTR, kBidi_Default_RTL,
             kBidi_Force_LTR, kBidi_Force_RTL}

NULL == <<>>

(***************************************************************************)
(* Small helpers on sequences.                                             *)
(***************************************************************************)
RECURSIVE Zeros(_)
Zeros(n) == IF n <= 0 THEN <<>> ELSE <<(<<0, FixedOne>>)>> \o Zeros(n - 1)

\* Capacity of a Vector that was given the hint `hint` and now holds n items.
\* The growth policy is outside this file; the model keeps the least
\* capacity that holds the contents.
VectorCapacity(hint, n) == IF n > hint THEN n ELSE hint

(***************************************************************************)
(* The shaper's answer for one run (HB_ShaperItem after HB_ShapeItem       *)
(* returned true).  log_clusters has contextCount slots (setupShaperItem); *)
(* glyphs and advances have num_glyphs meaningful slots out of `cap`       *)
(* zero-filled ones.  A read outside an array yields `garbage`.            *)
(***************************************************************************)
HBFixedToFloat(v) == <<v, FixedOne>>

LogClusterAt(sh, i) ==
    IF i < Len(sh.log_clusters) THEN sh.log_clusters[i + 1] ELSE sh.garbage

AdvanceAt(sh, c) ==
    IF c < sh.num_glyphs THEN sh.advances[c + 1]
    ELSE IF c < sh.cap THEN 0
    ELSE sh.garbage

GlyphAt(sh, i) ==
    IF i < sh.num_glyphs THEN sh.glyphs[i + 1] ELSE 0

\* an assignment in place of the addition
FloatAddKeepLast(a, b) == b

\* jfloat addition of two converted fixed-point values
FloatAdd(a, b) == <<a[1] + b[1], FixedOne>>

(***************************************************************************)
(* computeRunValuesWithHarfbuzz, lines 481-568.  `out` is the value being  *)
(* filled (outAdvances, outGlyphs, outLogClusters); the result is          *)
(* [out, total] where total is what is written to *outTotalAdvance.        *)
(***************************************************************************)
\* advances that ignore the cluster of the previous position
RunAdvancesEveryPosition(sh, i, count) ==
    [k \in 1..(count - i) |-> HBFixedToFloat(AdvanceAt(sh, LogClusterAt(sh, i + k - 1)))]

RECURSIVE RunAdvances(_, _, _)
\* the advances of positions i .. count-1, lines 519-529
RunAdvances(sh, i, count) ==
    IF i >= count THEN <<>>
    ELSE LET clusterPrevious == LogClusterAt(sh, i - 1)
             cluster == LogClusterAt(sh, i)
             a == IF cluster = clusterPrevious
                    THEN <<0, FixedOne>>
                    ELSE HBFixedToFloat(AdvanceAt(sh, cluster))
         IN <<a>> \o RunAdvances(sh, i + 1, count)

RECURSIVE RunTotal(_, _, _)
\* what the loop of lines 519-529 adds to totalAdvance
RunTotal(sh, i, count) ==
    IF i >= count THEN 0
    ELSE LET clusterPrevious == LogClusterAt(sh, i - 1)
             cluster == LogClusterAt(sh, i)
         IN (IF cluster = clusterPrevious THEN 0 ELSE AdvanceAt(sh, cluster))
            + RunTotal(sh, i + 1, count)

\* glyphs copied in the shaper's order whatever the direction
RunGlyphsInOrder(sh, i, isRTL) ==
    [k \in 1..(sh.num_glyphs - i) |-> GlyphAt(sh, i + k - 1) % UShortRange]

RECURSIVE RunGlyphs(_, _, _)
\* lines 540-549: glyph i is glyphs[i] (LTR) or glyphs[countGlyphs-1-i] (RTL)
RunGlyphs(sh, i, isRTL) ==
    IF i >= sh.num_glyphs THEN <<>>
    ELSE <<GlyphAt(sh, IF ~isRTL THEN i ELSE sh.num_glyphs - 1 - i) % UShortRange>>
         \o RunGlyphs(sh, i + 1, isRTL)

RECURSIVE RunLogClusters(_, _, _)
\* lines 552-563: log clusters shifted by the size the vector had on entry
RunLogClusters(sh, i, countLogClusters) ==
    IF i >= sh.num_glyphs THEN <<>>
    ELSE <<(LogClusterAt(sh, i) + countLogClusters) % UShortRange>>
         \o RunLogClusters(sh, i + 1, countLogClusters)

\* what the call adds to the record of calls kept in out.shaped: the run's
\* length and direction, the shaper's answer, and the sizes outAdvances and
\* outGlyphs had on entry
ShapedCall(out, count, isRTL, sh) ==
    [count |-> count, isRTL |-> isRTL, sh |-> sh,
     advAt |-> Len(out.mAdvances), glyphAt |-> Len(out.mGlyphs)]

computeRunValuesWithHarfbuzz(out, count, isRTL, sh) ==
    IF sh.nullAdvances \/ sh.num_glyphs = 0
    THEN \* lines 502-513
         [out |-> [out EXCEPT !.mAdvances = @ \o Zeros(count),
                              !.shaped = Append(@, ShapedCall(out, count, isRTL, sh))],
          total |-> <<0, FixedOne>>]
    ELSE LET first == HBFixedToFloat(AdvanceAt(sh, LogClusterAt(sh, 0)))
         IN [out |-> [out EXCEPT
                        !.mAdvances = @ \o <<first>> \o RunAdvances(sh, 1, count),
                        !.mGlyphs = @ \o RunGlyphs(sh, 0, isRTL),
                        !.mLogClusters =
                            @ \o RunLogClusters(sh, 0, Len(out.mLogClusters)),
                        !.shaped = Append(@, ShapedCall(out, count, isRTL, sh))],
             total |-> <<first[1] + RunTotal(sh, 1, count), FixedOne>>]

(***************************************************************************)
(* computeValuesWithHarfbuzz, lines 387-470.                               *)
(*   env.open       ubidi_open() returned a resolver                       *)
(*   env.setParaOK  U_SUCCESS(status) after ubidi_setPara                  *)
(*   env.paraLevel  ubidi_getParaLevel                                     *)
(*   env.countOK    U_SUCCESS(status) after ubidi_countRuns                *)
(*   env.runs       the visual runs [start, length, rtl], rc = Len         *)
(*   env.shapes     the shaper's answer for each run that is shaped        *)
(***************************************************************************)
\* lines 392-403: the requested paragraph level
BidiReq(dirFlags) ==
    CASE dirFlags = kBidi_LTR -> 0
      [] dirFlags = kBidi_RTL -> 1
      [] dirFlags = kBidi_Default_LTR -> UBIDI_DEFAULT_LTR
      [] dirFlags = kBidi_Default_RTL -> UBIDI_DEFAULT_RTL
      [] OTHER -> 0

\* line 458: (bidiReq = 1) || (bidiReq = UBIDI_DEFAULT_RTL), with assignments:
\* the first operand assigns 1 and yields 1, so the second is never evaluated.
FallbackIsRTL(bidiReq) ==
    LET assigned1 == 1
    IN (assigned1 # 0) \/ (UBIDI_DEFAULT_RTL # 0)

\* line 410 / 432 / 463: one run over [0, contextCount) writing the total
\* straight into *outTotalAdvance
SingleRun(out, contextCount, isRTL, sh) ==
    LET r == computeRunValuesWithHarfbuzz(out, contextCount, isRTL, sh)
    IN [r.out EXCEPT !.mTotalAdvance = r.total]

RECURSIVE MultiRun(_, _, _)
\* lines 435-452: runs i .. rc-1, each adding its total to *outTotalAdvance
MultiRun(out, env, i) ==
    IF i > Len(env.runs) THEN out
    ELSE LET run == env.runs[i]
             r == computeRunValuesWithHarfbuzz(out, run.length, run.rtl, env.shapes[i])
         IN MultiRun([r.out EXCEPT !.mTotalAdvance = FloatAdd(@, r.total)], env, i + 1)

computeValuesWithHarfbuzz(out, contextCount, dirFlags, env) ==
    LET bidiReq == BidiReq(dirFlags)
        forceLTR == dirFlags = kBidi_Force_LTR
        forceRTL == dirFlags = kBidi_Force_RTL
    IN IF forceLTR \/ forceRTL
       THEN SingleRun(out, contextCount, forceRTL, env.shapes[1])
       ELSE IF env.open
            THEN IF env.setParaOK
                 THEN LET paraDir == env.paraLevel % (kDirection_Mask + 1)
                          rc == Len(env.runs)
                      IN IF rc = 1 \/ ~env.countOK
                         THEN SingleRun(out, contextCount, paraDir = 1, env.shapes[1])
                         ELSE MultiRun(out, env, 1)
                 ELSE out    \* line 420 false: nothing is shaped, line 455
            ELSE SingleRun(out, contextCount, FallbackIsRTL(bidiReq), env.shapes[1])

\* TextLayoutCacheValue::TextLayoutCacheValue, lines 288-290
\* (shaped is not a member of the class: it records the calls of
\* computeRunValuesWithHarfbuzz that filled the value)
NewValue ==
    [mAdvances |-> <<>>, mGlyphs |-> <<>>, mLogClusters |-> <<>>,
     mTotalAdvance |-> <<0, FixedOne>>, hint |-> 0, shaped |-> <<>>]

\* TextLayoutCacheValue::computeValues, lines 300-312
computeValues(contextCount, dirFlags, env) ==
    computeValuesWithHarfbuzz([NewValue EXCEPT !.hint = contextCount],
                              contextCount, dirFlags, env)

\* TextLayoutCacheValue::getSize, lines 314-317
ValueGetSize(v) ==
    SizeofValue + SizeofJfloat * VectorCapacity(v.hint, Len(v.mAdvances))
        + SizeofUChar * VectorCapacity(v.hint, Len(v.mGlyphs))
        + SizeofUChar * VectorCapacity(v.hint, Len(v.mLogClusters))

RECURSIVE GlyphsIndexLoop(_, _, _, _, _, _)
\* the loop of lines 624-633 from glyph i on, with *outStartIndex and endIndex
GlyphsIndexLoop(v, start, count, i, startIndex, endIndex) ==
    IF i >= Len(v.mGlyphs) THEN [startIndex |-> startIndex, endIndex |-> endIndex]
    ELSE IF v.mLogClusters[i + 1] <= start
         THEN GlyphsIndexLoop(v, start, count, i + 1, i, i)
    ELSE IF v.mLogClusters[i + 1] <= start + count
         THEN GlyphsIndexLoop(v, start, count, i + 1, startIndex, i)
    ELSE GlyphsIndexLoop(v, start, count, i + 1, startIndex, endIndex)

\* TextLayoutCacheValue::getGlyphsIndexAndCount, lines 616-634
getGlyphsIndexAndCount(v, start, count) ==
    IF count = 0
    THEN [outStartIndex |-> 0, outGlyphsCount |-> 0]
    ELSE LET r == GlyphsIndexLoop(v, start, count, 0, 0, 0)
         IN [outStartIndex |-> r.startIndex,
             outGlyphsCount |-> r.endIndex - r.startIndex + 1]


(***************************************************************************)
(* What the external engines may answer, within the bounds.                *)
(***************************************************************************)
GarbageVals == {0, 9}    \* contents of a slot nobody wrote

\* nondecreasing cluster maps of `count` positions onto glyph indices < n,
\* starting at 0 (old Harfbuzz: log_clusters[i] is the glyph of code unit i)
ClusterMaps(count, n) ==
    {f \in [1..count -> 0..(n - 1)] :
        /\ f[1] = 0
        /\ \A i \in 2..count : f[i] >= f[i - 1]}

\* the shaper found nothing to draw
ShEmpty(contextCount) ==
    [num_glyphs |-> 0, nullAdvances |-> FALSE, glyphs |-> <<>>, advances |-> <<>>,
     log_clusters |-> [i \in 1..contextCount |-> 0],
     cap |-> (contextCount + 2) * 2, garbage |-> 0]

\* n glyphs: glyph j has id 100 + j and advance 6 + j pixels
ShGlyphs(count, contextCount, n, f, g) ==
    [num_glyphs |-> n, nullAdvances |-> FALSE,
     glyphs |-> [j \in 1..n |-> 100 + j],
     advances |-> [j \in 1..n |-> FixedOne * (5 + j)],
     log_clusters |-> [i \in 1..contextCount |-> IF i <= count THEN f[i] ELSE g],
     cap |-> (contextCount + 2) * 2, garbage |-> g]

\* the answers for a run of `count` code units in a context of contextCount;
\* an empty run yields no glyph
ShapeResults(count, contextCount) ==
    {ShEmpty(contextCount)} \cup
    IF count = 0 THEN {}
    ELSE UNION {{ShGlyphs(count, contextCount, n, f, g) :
                    f \in ClusterMaps(count, n), g \in GarbageVals} :
                n \in 1..(count + 1)}

OneRun(contextCount, rtl) == <<[start |-> 0, length |-> contextCount, rtl |-> rtl]>>

\* two visual runs of opposite directions covering [0, contextCount)
TwoRuns(contextCount) ==
    {<<[start |-> 0, length |-> a, rtl |-> d],
       [start |-> a, length |-> contextCount - a, rtl |-> ~d]>> :
        a \in 1..(contextCount - 1), d \in BOOLEAN}
    \cup
    {<<[start |-> a, length |-> contextCount - a, rtl |-> d],
       [start |-> 0, length |-> a, rtl |-> ~d]>> :
        a \in 1..(contextCount - 1), d \in BOOLEAN}

EnvOf(open, setParaOK, paraLevel, countOK, runs, shapes) ==
    [open |-> open, setParaOK |-> setParaOK, paraLevel |-> paraLevel,
     countOK |-> countOK, runs |-> runs, shapes |-> shapes]

\* the resolver cannot be opened (also stands for the Force modes, which
\* never ask for it)
EnvsNoBidi(contextCount) ==
    {EnvOf(FALSE, FALSE, 0, FALSE, OneRun(contextCount, FALSE), <<sh>>) :
        sh \in ShapeResults(contextCount, contextCount)}

\* ubidi_setPara fails
EnvsSetParaFails(contextCount) ==
    {EnvOf(TRUE, FALSE, 0, FALSE, OneRun(contextCount, FALSE), <<sh>>) :
        sh \in ShapeResults(contextCount, contextCount)}

\* ubidi_countRuns fails, or reports one run
EnvsOneRun(contextCount) ==
    {EnvOf(TRUE, TRUE, lvl, ok,
           IF ok THEN OneRun(contextCount, lvl = 1) ELSE <<>>, <<sh>>) :
        lvl \in 0..1, ok \in BOOLEAN,
        sh \in ShapeResults(contextCount, contextCount)}

\* ubidi_countRuns reports two runs
EnvsTwoRuns(contextCount) ==
    UNION {{EnvOf(TRUE, TRUE, lvl, TRUE, runs, <<s1, s2>>) :
               lvl \in 0..1,
               s1 \in ShapeResults(runs[1].length, contextCount),
               s2 \in ShapeResults(runs[2].length, contextCount)} :
           runs \in TwoRuns(contextCount)}

Envs(contextCount) ==
    EnvsNoBidi(contextCount) \cup EnvsSetParaFails(contextCount)
        \cup EnvsOneRun(contextCount) \cup EnvsTwoRuns(contextCount)


(***************************************************************************)
(* TextLayoutCacheKey, lines 221-283.  `text` is the borrowed pointer      *)
(* (NULL, or <<buffer>>), textCopy the owned String16.                     *)
(***************************************************************************)
\* TextLayoutCacheKey(paint, text, count, dirFlags), lines 226-236
TextLayoutCacheKey(paint, text, count, dirFlags) ==
    [text |-> <<text>>, textCopy |-> <<>>, count |-> count, dirFlags |-> dirFlags,
     typeface |-> paint.typeface, textSize |-> paint.textSize,
     textSkewX |-> paint.textSkewX, textScaleX |-> paint.textScaleX,
     flags |-> paint.flags, hinting |-> paint.hinting]

\* getText(): the borrowed text if there is one, else the copy
getText(k) == IF k.text # NULL THEN k.text[1] ELSE k.textCopy

\* internalTextCopy, lines 276-279
internalTextCopy(k) ==
    [k EXCEPT !.textCopy = SubSeq(k.text[1], 1, k.count), !.text = NULL]

\* String16::setTo(const char16_t*): the units before the first NUL unit
NulTerminated(mem) ==
    IF \E i \in 1..Len(mem) : mem[i] = 0
    THEN SubSeq(mem, 1, (CHOOSE i \in 1..Len(mem) :
                            mem[i] = 0 /\ \A j \in 1..(i - 1) : mem[j] # 0) - 1)
    ELSE mem

\* TextLayoutCacheKey(const TextLayoutCacheKey& other), lines 238-252.
\* textCopy.setTo(other.text) takes no count: it reads other.text up to the
\* first NUL unit, through the caller's count units and on into `beyond`,
\* the memory that follows them.  When the copy holds fewer than count
\* units, the count units read at getText() are the string, its terminating
\* NUL and then `slack`, whatever follows the string in memory; textCopy
\* holds those units.
CopyKey(other, beyond, slack) ==
    IF other.text # NULL
    THEN LET str == NulTerminated(SubSeq(other.text[1], 1, other.count) \o beyond)
         IN [other EXCEPT
               !.text = NULL,
               !.textCopy = IF Len(str) >= other.count THEN str
                            ELSE SubSeq(str \o <<0>> \o slack, 1, other.count)]
    ELSE other

\* getSize, lines 281-283
KeyGetSize(k) == SizeofKey + SizeofUChar * k.count

\* byte i (0-based) of an array of 16-bit units, little endian; a unit the
\* array does not have reads as 0
ByteAt(buf, i) ==
    LET u == IF (i \div 2) + 1 <= Len(buf) THEN buf[(i \div 2) + 1] ELSE 0
    IN IF i % 2 = 0 THEN u % 256 ELSE u \div 256

RECURSIVE MemcmpFrom(_, _, _, _)
\* memcmp(a, b, n) from byte i on: -1, 0 or 1
MemcmpFrom(a, b, i, n) ==
    IF i >= n THEN 0
    ELSE IF ByteAt(a, i) < ByteAt(b, i) THEN -1
    ELSE IF ByteAt(a, i) > ByteAt(b, i) THEN 1
    ELSE MemcmpFrom(a, b, i + 1, n)

\* an ordering whose last comparison is <= instead of <
KeyLessOrEqual(l, r) ==
    IF l.count # r.count THEN l.count < r.count
    ELSE IF l.typeface # r.typeface THEN l.typeface < r.typeface
    ELSE IF l.textSize # r.textSize THEN l.textSize < r.textSize
    ELSE IF l.textSkewX # r.textSkewX THEN l.textSkewX < r.textSkewX
    ELSE IF l.textScaleX # r.textScaleX THEN l.textScaleX < r.textScaleX
    ELSE IF l.flags # r.flags THEN l.flags < r.flags
    ELSE IF l.hinting # r.hinting THEN l.hinting < r.hinting
    ELSE IF l.dirFlags # r.dirFlags THEN l.dirFlags < r.dirFlags
    ELSE MemcmpFrom(getText(l), getText(r), 0, l.count * SizeofUChar) <= 0

\* operator<, lines 254-274 (LTE_INT / LTE_FLOAT: less, or equal and go on)
KeyLess(l, r) ==
    IF l.count < r.count THEN TRUE ELSE IF l.count # r.count THEN FALSE ELSE
    IF l.typeface < r.typeface THEN TRUE ELSE IF l.typeface # r.typeface THEN FALSE ELSE
    IF l.textSize < r.textSize THEN TRUE ELSE IF l.textSize # r.textSize THEN FALSE ELSE
    IF l.textSkewX < r.textSkewX THEN TRUE ELSE IF l.textSkewX # r.textSkewX THEN FALSE ELSE
    IF l.textScaleX < r.textScaleX THEN TRUE ELSE IF l.textScaleX # r.textScaleX THEN FALSE ELSE
    IF l.flags < r.flags THEN TRUE ELSE IF l.flags # r.flags THEN FALSE ELSE
    IF l.hinting < r.hinting THEN TRUE ELSE IF l.hinting # r.hinting THEN FALSE ELSE
    IF l.dirFlags < r.dirFlags THEN TRUE ELSE IF l.dirFlags # r.dirFlags THEN FALSE ELSE
    MemcmpFrom(getText(l), getText(r), 0, l.count * SizeofUChar) < 0

\* the keys a sorted container takes for the same key
KeyEquiv(l, r) == ~KeyLess(l, r) /\ ~KeyLess(r, l)

(***************************************************************************)
(* The store (GenerationCache<TextLayoutCacheKey, sp<Value>>): a sequence  *)
(* of entries [key, value], oldest first.  Its code is not in this file;   *)
(* it is modelled from its documented behaviour.                           *)
(***************************************************************************)
\* get(key): the value stored under an equivalent key, or NULL
CacheGet(store, key) ==
    IF \E i \in 1..Len(store) : KeyEquiv(store[i].key, key)
    THEN store[CHOOSE i \in 1..Len(store) : KeyEquiv(store[i].key, key)].value
    ELSE NULL

\* put(key, value): the entry becomes the youngest; an entry already stored
\* under an equivalent key is replaced
CachePut(store, key, value) ==
    Append(SelectSeq(store, LAMBDA e : ~KeyEquiv(e.key, key)),
           [key |-> key, value |-> value])

(***************************************************************************)
(* TextLayoutCache.  A cache state c is [mCache, mSize, removed, spins]:   *)
(* removed lists the entries handed to the removal callback so far, spins  *)
(* tells that an eviction loop was left running on an empty store (the     *)
(* call then never returns).                                               *)
(***************************************************************************)
\* a callback that forgets the key's bytes
OnEntryRemovedValueOnly(size, entry) ==
    IF entry.value # NULL THEN size - ValueGetSize(entry.value[1]) ELSE size

\* operator()(text, desc), lines 87-96: the new mSize
OnEntryRemoved(size, entry) ==
    IF entry.value # NULL
    THEN size - (KeyGetSize(entry.key) + ValueGetSize(entry.value[1]))
    ELSE size

\* mCache.removeOldest(): drops the oldest entry and calls the callback;
\* nothing happens on an empty store
RemoveOldest(c) ==
    IF c.mCache = <<>> THEN c
    ELSE [c EXCEPT !.mCache = Tail(c.mCache),
                   !.mSize = OnEntryRemoved(c.mSize, Head(c.mCache)),
                   !.removed = Append(c.removed, Head(c.mCache))]

RECURSIVE ClearAll(_)
\* mCache.clear(), line 102: every entry goes through the callback
ClearAll(c) ==
    IF c.mCache = <<>> THEN c
    ELSE ClearAll([c EXCEPT !.mCache = Tail(c.mCache),
                            !.mSize = OnEntryRemoved(c.mSize, Head(c.mCache)),
                            !.removed = Append(c.removed, Head(c.mCache))])

\* line 137: the entry is not too big
Fits(size, maxSize) == size <= maxSize

\* a loop condition that forgets the entry about to be inserted
NeedsRoomIgnoringNew(curSize, size, maxSize) == curSize > maxSize

\* lines 79, 139, 143: the loop condition, with size = 0 in removeOldests
NeedsRoom(curSize, size, maxSize) == curSize + size > maxSize

\* making room by emptying the store
RemoveAllWhenNeeded(c, size, maxSize) ==
    IF NeedsRoom(c.mSize, size, maxSize) THEN ClearAll(c) ELSE c

RECURSIVE RemoveWhileNeeded(_, _, _)
\* while (mSize + size > mMaxSize) mCache.removeOldest();
\* on an empty store the loop makes no progress
RemoveWhileNeeded(c, size, maxSize) ==
    IF NeedsRoom(c.mSize, size, maxSize)
    THEN IF c.mCache = <<>>
         THEN [c EXCEPT !.spins = TRUE]
         ELSE RemoveWhileNeeded(RemoveOldest(c), size, maxSize)
    ELSE c

\* an `if` in place of the `while`
removeOldestsOnce(c, maxSize) ==
    IF NeedsRoom(c.mSize, 0, maxSize) THEN RemoveOldest(c) ELSE c

\* removeOldests, lines 78-82
removeOldests(c, maxSize) == RemoveWhileNeeded(c, 0, maxSize)

\* a miss that makes room before it looks at the entry's size
AdmitAfterEviction(c, maxSize, key, value) ==
    LET size == KeyGetSize(key) + ValueGetSize(value[1])
        room == RemoveWhileNeeded(c, size, maxSize)
    IN IF Fits(size, maxSize)
       THEN [c |-> [room EXCEPT
                      !.mSize = @ + size,
                      !.mCache = CachePut(@, internalTextCopy(key), value)],
             ret |-> value]
       ELSE [c |-> [room EXCEPT !.spins = FALSE], ret |-> NULL]

\* lines 136-176: what a miss does with the computed value.
\* [c, ret]: the cache state afterwards and the pointer getValue returns.
Admit(c, maxSize, key, value) ==
    LET size == KeyGetSize(key) + ValueGetSize(value[1])
    IN IF Fits(size, maxSize)
       THEN LET room == RemoveWhileNeeded(c, size, maxSize)
            IN [c |-> [room EXCEPT
                         !.mSize = @ + size,
                         !.mCache = CachePut(@, internalTextCopy(key), value)],
                ret |-> value]
       ELSE [c |-> c, ret |-> NULL]      \* line 175: value.clear()

\* a hit that makes its entry the youngest
OnHitPromote(c, key) ==
    [c EXCEPT !.mCache = SelectSeq(@, LAMBDA e : ~KeyEquiv(e.key, key))
                             \o SelectSeq(@, LAMBDA e : KeyEquiv(e.key, key))]

\* lines 177-198: what the hit branch does to the cache state: it counts
\* and logs, and calls nothing on mCache
OnHit(c, key) == c


(***************************************************************************)
(* State.                                                                  *)
(***************************************************************************)
VARIABLES
    mCache,          \* the store, oldest entry first
    mSize,           \* accounted bytes
    mMaxSize,        \* byte budget
    mCacheHitCount,  \* statistics, counted when debug is enabled
    mDebugEnabled,   \* read once by init() from the debug level
    last,            \* the last public operation: arguments, result, effects
    mLock,           \* holder of the mutex, 0 when free
    thr,             \* the threads of SpecConc: position and locals
    job              \* the shaping job of SpecShape

vars == <<mCache, mSize, mMaxSize, mCacheHitCount, mDebugEnabled, last,
          mLock, thr, job>>

(***************************************************************************)
(* Inputs.                                                                 *)
(***************************************************************************)
\* the paint of the callers
ThePaint ==
    [typeface |-> 1, textSize |-> 12, textSkewX |-> 0, textScaleX |-> 1,
     flags |-> 0, hinting |-> 1]

\* texts of 0 .. MaxCount code units
Texts == UNION {[1..n -> {65}] : n \in 0..MaxCount}

\* direction modes of the cache's callers
CacheDirs == {kBidi_LTR}

\* one glyph per code unit
ShPlain(contextCount) ==
    IF contextCount = 0 THEN ShEmpty(0)
    ELSE ShGlyphs(contextCount, contextCount, contextCount,
                  [i \in 1..contextCount |-> i - 1], 0)

\* what the engines answer to the cache's callers: one LTR run shaped
\* glyph by glyph, or a failing ubidi_setPara (for an empty text both leave
\* the same empty value, and only the first is taken)
CacheEnvs(contextCount) ==
    {EnvOf(TRUE, ok, 0, TRUE, OneRun(contextCount, FALSE), <<ShPlain(contextCount)>>) :
        ok \in IF contextCount = 0 THEN {TRUE} ELSE BOOLEAN}

\* budgets passed to setMaxSize
MaxSizes == {0, 120, 255}

(***************************************************************************)
(* Init: the cache after TextLayoutCache(), lines 34-59.                   *)
(***************************************************************************)
\* `last` describes the last public operation: its name and arguments, the
\* pointer it returned, whether it hit / ran computeValues, the entry size a
\* miss computed, the entries its callbacks received, the cache before it
\* (pre) and a summary of the operation before it (prev).
NoPrev ==
    [op |-> "init", text |-> <<>>, dirFlags |-> 0, ret |-> NULL, hit |-> FALSE,
     size |-> 0, maxSize |-> DefaultMaxSize]

NoOp ==
    [op |-> "init", text |-> <<>>, dirFlags |-> 0, arg |-> 0, ret |-> NULL,
     hit |-> FALSE, computed |-> FALSE, size |-> 0, removed |-> <<>>,
     pre |-> [mCache |-> <<>>, mSize |-> 0, mMaxSize |-> DefaultMaxSize,
              mCacheHitCount |-> 0],
     prev |-> NoPrev]

Prev ==
    [op |-> last.op, text |-> last.text, dirFlags |-> last.dirFlags,
     ret |-> last.ret, hit |-> last.hit, size |-> last.size,
     maxSize |-> last.pre.mMaxSize]

\* the cache state the operators above work on
CacheNow == [mCache |-> mCache, mSize |-> mSize, removed |-> <<>>, spins |-> FALSE]

Pre ==
    [mCache |-> mCache, mSize |-> mSize, mMaxSize |-> mMaxSize,
     mCacheHitCount |-> mCacheHitCount]

InitCache ==
    /\ mCache = <<>>
    /\ mSize = 0
    /\ mMaxSize = DefaultMaxSize
    /\ mCacheHitCount = 0
    /\ mDebugEnabled \in BOOLEAN
    /\ last = NoOp
    /\ mLock = 0

Init ==
    /\ InitCache
    /\ thr = <<>>
    /\ job = [phase |-> "idle"]

(***************************************************************************)
(* The public operations, each run from call to return by one caller.      *)
(***************************************************************************)
\* getValue, lines 108-200
GetValue(text, dirFlags) ==
    LET count == Len(text)
        key == TextLayoutCacheKey(ThePaint, text, count, dirFlags)
        found == CacheGet(mCache, key)
    IN IF found = NULL
       THEN \* a miss: the engines are consulted (line 131)
            \E env \in CacheEnvs(count) :
            LET value == <<computeValues(count, dirFlags, env)>>
                r == Admit(CacheNow, mMaxSize, key, value)
            IN /\ ~r.c.spins
               /\ mCache' = r.c.mCache
               /\ mSize' = r.c.mSize
               /\ last' = [op |-> "getValue", text |-> text, dirFlags |-> dirFlags,
                           arg |-> 0, ret |-> r.ret, hit |-> FALSE, computed |-> TRUE,
                           size |-> KeyGetSize(key) + ValueGetSize(value[1]),
                           removed |-> r.c.removed, pre |-> Pre, prev |-> Prev]
               /\ UNCHANGED <<mMaxSize, mCacheHitCount, mDebugEnabled, mLock, thr, job>>
       ELSE /\ mDebugEnabled => mCacheHitCount < MaxHits
            /\ mCacheHitCount' =
                   IF mDebugEnabled THEN mCacheHitCount + 1 ELSE mCacheHitCount
            /\ mCache' = OnHit(CacheNow, key).mCache
            /\ mSize' = OnHit(CacheNow, key).mSize
            /\ last' = [op |-> "getValue", text |-> text, dirFlags |-> dirFlags,
                        arg |-> 0, ret |-> found, hit |-> TRUE, computed |-> FALSE,
                        size |-> 0, removed |-> OnHit(CacheNow, key).removed,
                        pre |-> Pre, prev |-> Prev]
            /\ UNCHANGED <<mMaxSize, mDebugEnabled, mLock, thr, job>>

\* setMaxSize, lines 73-76
SetMaxSize(maxSize) ==
    LET c == removeOldests(CacheNow, maxSize)
    IN /\ ~c.spins
       /\ mMaxSize' = maxSize
       /\ mCache' = c.mCache
       /\ mSize' = c.mSize
       /\ last' = [op |-> "setMaxSize", text |-> <<>>, dirFlags |-> 0,
                   arg |-> maxSize, ret |-> NULL, hit |-> FALSE, computed |-> FALSE,
                   size |-> 0, removed |-> c.removed, pre |-> Pre, prev |-> Prev]
       /\ UNCHANGED <<mCacheHitCount, mDebugEnabled, mLock, thr, job>>

\* clear, lines 101-103
Clear ==
    LET c == ClearAll(CacheNow)
    IN /\ mCache' = c.mCache
       /\ mSize' = c.mSize
       /\ last' = [op |-> "clear", text |-> <<>>, dirFlags |-> 0,
                   arg |-> 0, ret |-> NULL, hit |-> FALSE, computed |-> FALSE,
                   size |-> 0, removed |-> c.removed, pre |-> Pre, prev |-> Prev]
       /\ UNCHANGED <<mMaxSize, mCacheHitCount, mDebugEnabled, mLock, thr, job>>

Next ==
    \/ \E text \in Texts, dirFlags \in CacheDirs : GetValue(text, dirFlags)
    \/ \E maxSize \in MaxSizes : SetMaxSize(maxSize)
    \/ Clear

Spec == Init /\ [][Next]_vars


(***************************************************************************)
(* Properties of the cache, checked under Spec.                            *)
(***************************************************************************)
\* key.getSize() + value->getSize() of a stored entry
EntrySize(e) == KeyGetSize(e.key) + ValueGetSize(e.value[1])

RECURSIVE SumSizes(_)
SumSizes(store) ==
    IF store = <<>> THEN 0 ELSE EntrySize(Head(store)) + SumSizes(Tail(store))

\* the least n such that dropping the n oldest entries of `store`, which
\* accounts curSize bytes, leaves room for `size` more bytes within maxSize
ShortestPrefix(store, curSize, size, maxSize) ==
    CHOOSE n \in 0..Len(store) :
        /\ (curSize - SumSizes(SubSeq(store, 1, n)) + size <= maxSize \/ n = Len(store))
        /\ \A m \in 0..(n - 1) :
               curSize - SumSizes(SubSeq(store, 1, m)) + size > maxSize

LastKey == TextLayoutCacheKey(ThePaint, last.text, Len(last.text), last.dirFlags)

MissAdmitted == last.op = "getValue" /\ ~last.hit /\ last.size <= last.pre.mMaxSize
MissOversize == last.op = "getValue" /\ ~last.hit /\ last.size > last.pre.mMaxSize

\* C1: after any sequence of getValue, setMaxSize and clear, mSize is at most
\* mMaxSize and every stored entry's key size + value size is at most mMaxSize.
C1_SizeWithinBudget ==
    /\ mSize <= mMaxSize
    /\ \A i \in 1..Len(mCache) : EntrySize(mCache[i]) <= mMaxSize

\* C1 witness: a getValue that had to evict and left two entries in the store
C1_Witness ==
    /\ last.op = "getValue"
    /\ last.removed # <<>>
    /\ Len(mCache) = 2

\* C2: mSize equals the sum of key size + value size over the stored
\* entries, and so is 0 when the store is empty, also after clear.
C2_SizeIsSum ==
    /\ mSize = SumSizes(mCache)
    /\ mCache = <<>> => mSize = 0

\* C2 witness: clear() emptied a store that held two entries
C2_Witness ==
    /\ last.op = "clear"
    /\ Len(last.pre.mCache) = 2
    /\ mCache = <<>>

\* C3: getValue always returns a non-null artifact, also on a miss whose
\* entry is larger than mMaxSize.
C3_AlwaysReturnsArtifact ==
    last.op = "getValue" => last.ret # NULL

\* C4: a getValue miss whose entry size exceeds mMaxSize leaves the cache as
\* it was: nothing inserted, nothing evicted, no callback, same length, same
\* mSize.
C4_OversizeLeavesCache ==
    MissOversize =>
        /\ mCache = last.pre.mCache
        /\ mSize = last.pre.mSize
        /\ mMaxSize = last.pre.mMaxSize
        /\ mCacheHitCount = last.pre.mCacheHitCount
        /\ last.removed = <<>>
        /\ \A i \in 1..Len(mCache) : ~KeyEquiv(mCache[i].key, LastKey)

\* C4 witness: an oversize miss on a store that holds an entry
C4_Witness ==
    /\ MissOversize
    /\ last.pre.mCache # <<>>

\* C5: an admitted miss evicts exactly the shortest oldest-first prefix of the
\* store that makes mSize + size fit (none if it fits already); the callback
\* receives each evicted entry once, key and value, and mSize goes down by
\* each one's accounted size before the new entry is added as the youngest.
C5_EvictsShortestPrefix ==
    MissAdmitted =>
        LET n == ShortestPrefix(last.pre.mCache, last.pre.mSize, last.size,
                                last.pre.mMaxSize)
        IN /\ last.removed = SubSeq(last.pre.mCache, 1, n)
           /\ last.pre.mSize - SumSizes(last.removed) + last.size <= last.pre.mMaxSize
           /\ mSize = last.pre.mSize - SumSizes(last.removed) + last.size
           /\ Len(mCache) = Len(last.pre.mCache) - n + 1
           /\ SubSeq(mCache, 1, Len(mCache) - 1)
                  = SubSeq(last.pre.mCache, n + 1, Len(last.pre.mCache))
           /\ KeyEquiv(mCache[Len(mCache)].key, LastKey)
           /\ mCache[Len(mCache)].value = last.ret

\* C5 witness: an admitted miss evicted the oldest entry and kept a younger one
C5_Witness ==
    /\ MissAdmitted
    /\ Len(last.removed) = 1
    /\ Len(last.pre.mCache) = 2

\* C6: setMaxSize(n) sets mMaxSize to n and evicts oldest-first until mSize is
\* at most n; with n at least mSize it evicts nothing and changes neither the
\* store nor mSize.
C6_SetMaxSizeEvicts ==
    last.op = "setMaxSize" =>
        LET n == ShortestPrefix(last.pre.mCache, last.pre.mSize, 0, last.arg)
        IN /\ mMaxSize = last.arg
           /\ mSize <= last.arg
           /\ last.removed = SubSeq(last.pre.mCache, 1, n)
           /\ mCache = SubSeq(last.pre.mCache, n + 1, Len(last.pre.mCache))
           /\ mSize = last.pre.mSize - SumSizes(last.removed)
           /\ last.arg >= last.pre.mSize =>
                  /\ last.removed = <<>>
                  /\ mCache = last.pre.mCache
                  /\ mSize = last.pre.mSize

\* C6 witness: setMaxSize evicted two entries and kept one
C6_Witness ==
    /\ last.op = "setMaxSize"
    /\ Len(last.removed) = 2
    /\ Len(mCache) = 1

SameKeyTwice ==
    /\ last.op = "getValue"
    /\ last.prev.op = "getValue"
    /\ last.prev.text = last.text
    /\ last.prev.dirFlags = last.dirFlags

SecondIsHit ==
    /\ last.hit
    /\ ~last.computed
    /\ last.ret = last.prev.ret
    /\ last.ret # NULL
    /\ mDebugEnabled => mCacheHitCount = last.pre.mCacheHitCount + 1

\* C7 as stated: for any key and any cache state, the second of two
\* getValue(k) calls in immediate succession is a hit that returns the same
\* artifact, computes nothing and (debug enabled) adds one to the hit count.
C7_SecondCallHits ==
    SameKeyTwice => SecondIsHit

\* C7 amended: the same, when the first call was a hit or computed an entry
\* of size at most mMaxSize (an oversize entry is not kept, so the second
\* call misses and computes again).
C7_SecondCallHitsIfAdmitted ==
    SameKeyTwice /\ (last.prev.hit \/ last.prev.size <= last.prev.maxSize)
        => SecondIsHit

\* C7 witness: the first call missed and was admitted, the second hit, with
\* debug enabled
C7_Witness ==
    /\ SameKeyTwice
    /\ ~last.prev.hit
    /\ last.prev.size <= last.prev.maxSize
    /\ last.hit
    /\ mDebugEnabled

\* C18: a getValue call that hits changes nothing in the store: the entries
\* and their order (so the next entry to be evicted is still the one
\* inserted earliest), mSize and mMaxSize are as before, and no entry went
\* through the removal callback.
C18_HitChangesNothing ==
    last.op = "getValue" /\ last.hit =>
        /\ mCache = last.pre.mCache
        /\ mSize = last.pre.mSize
        /\ mMaxSize = last.pre.mMaxSize
        /\ last.removed = <<>>
        /\ RemoveOldest(CacheNow).removed = <<Head(last.pre.mCache)>>

\* C18 witness: a hit on the oldest of two stored entries
C18_Witness ==
    /\ last.op = "getValue"
    /\ last.hit
    /\ Len(last.pre.mCache) = 2
    /\ KeyEquiv(last.pre.mCache[1].key, LastKey)


(***************************************************************************)
(* SpecShape: computeValues on its own, for every text length, direction   *)
(* mode and answer of the bidi engine and the shaper within the bounds.    *)
(***************************************************************************)
\* the answers the engines can give for a text of n code units in direction
\* mode d: a Force mode never asks the bidi engine and has the shaper work on
\* the whole text
JobEnvs(n, d) ==
    IF d \in {kBidi_Force_LTR, kBidi_Force_RTL} THEN EnvsNoBidi(n) ELSE Envs(n)

ShapeJobs ==
    UNION {UNION {{[phase |-> "input", contextCount |-> n, dirFlags |-> d,
                    env |-> e, value |-> NewValue, start |-> 0, count |-> 0,
                    range |-> [outStartIndex |-> 0, outGlyphsCount |-> 0]] :
                      e \in JobEnvs(n, d)} :
                  d \in DirModes} :
           n \in 0..MaxCount}

InitShape ==
    /\ InitCache
    /\ thr = <<>>
    /\ job \in ShapeJobs

\* value->computeValues(paint, text, count, dirFlags), line 131
ShapeCompute ==
    /\ job.phase = "input"
    /\ job' = [job EXCEPT
                 !.phase = "done",
                 !.value = computeValues(job.contextCount, job.dirFlags, job.env)]
    /\ UNCHANGED <<mCache, mSize, mMaxSize, mCacheHitCount, mDebugEnabled, last,
                   mLock, thr>>

\* value->getGlyphsIndexAndCount(start, count, &startIndex, &glyphsCount) on
\* the computed value, lines 616-634
GetGlyphsIndexAndCount(start, count) ==
    /\ job.phase = "done"
    /\ job' = [job EXCEPT
                 !.phase = "queried",
                 !.start = start,
                 !.count = count,
                 !.range = getGlyphsIndexAndCount(job.value, start, count)]
    /\ UNCHANGED <<mCache, mSize, mMaxSize, mCacheHitCount, mDebugEnabled, last,
                   mLock, thr>>

NextShape ==
    \/ ShapeCompute
    \/ \E start \in 0..MaxCount, count \in 0..MaxCount :
           GetGlyphsIndexAndCount(start, count)

SpecShape == InitShape /\ [][NextShape]_vars

\* C10: every artifact computeValues produces has exactly one advance per
\* input code unit, whatever the direction mode, the bidi outcome, the shaper
\* outcome and the text length.
C10_OneAdvancePerCodeUnit ==
    job.phase = "done" => Len(job.value.mAdvances) = job.contextCount

RECURSIVE SumAdvances(_)
\* the sum of a sequence of advances, in 1/64 pixel
SumAdvances(advances) ==
    IF advances = <<>> THEN 0 ELSE Head(advances)[1] + SumAdvances(Tail(advances))

\* the advances a call of computeRunValuesWithHarfbuzz produced
AdvancesOfCall(value, s) == SubSeq(value.mAdvances, s.advAt + 1, s.advAt + s.count)

\* the glyphs a call of computeRunValuesWithHarfbuzz produced
GlyphsOfCall(value, s) ==
    SubSeq(value.mGlyphs, s.glyphAt + 1, s.glyphAt + s.sh.num_glyphs)

RECURSIVE SumRunTotals(_, _)
\* the sum over the calls of each run's total
SumRunTotals(value, calls) ==
    IF calls = <<>> THEN 0
    ELSE SumAdvances(AdvancesOfCall(value, Head(calls)))
             + SumRunTotals(value, Tail(calls))

\* the shaper found glyphs for the run
NonEmptyResult(s) == ~s.sh.nullAdvances /\ s.sh.num_glyphs > 0

ShapeDone == job.phase = "done"

\* C11: the total advance of every artifact computeValues produces is the
\* sum of its advances; with several runs it is the sum of the runs' totals,
\* a run with an empty shaper result adding 0.
C11_TotalIsSum ==
    ShapeDone =>
        /\ job.value.mTotalAdvance[2] = FixedOne
        /\ job.value.mTotalAdvance[1] = SumAdvances(job.value.mAdvances)
        /\ job.value.mTotalAdvance[1] = SumRunTotals(job.value, job.value.shaped)
        /\ \A k \in 1..Len(job.value.shaped) :
               ~NonEmptyResult(job.value.shaped[k]) =>
                   SumAdvances(AdvancesOfCall(job.value, job.value.shaped[k])) = 0

\* C11 witness: two runs were shaped, both with glyphs, and the total is the
\* sum of two positive run totals
C11_Witness ==
    /\ ShapeDone
    /\ Len(job.value.shaped) = 2
    /\ \A k \in 1..2 :
           /\ NonEmptyResult(job.value.shaped[k])
           /\ SumAdvances(AdvancesOfCall(job.value, job.value.shaped[k])) > 0

\* the advance the shaper's answer gives position i of the run
ExpectedAdvance(sh, i) ==
    IF i > 0 /\ sh.log_clusters[i + 1] = sh.log_clusters[i]
    THEN <<0, FixedOne>>
    ELSE <<sh.advances[sh.log_clusters[i + 1] + 1], FixedOne>>

\* C12: in a run shaped with glyphs, position 0 gets the converted
\* advances[log_clusters[0]]; position i >= 1 gets 0 when log_clusters[i]
\* equals log_clusters[i-1] and the converted advances[log_clusters[i]]
\* otherwise.
C12_AdvancePerCluster ==
    ShapeDone =>
        \A k \in 1..Len(job.value.shaped) :
            LET s == job.value.shaped[k]
            IN NonEmptyResult(s) =>
                   \A i \in 0..(s.count - 1) :
                       job.value.mAdvances[s.advAt + i + 1] = ExpectedAdvance(s.sh, i)

\* C12 witness: a run of two code units shaped into one glyph (a ligature):
\* advances {a, 0}
C12_Witness ==
    /\ ShapeDone
    /\ Len(job.value.shaped) = 1
    /\ LET s == job.value.shaped[1]
       IN /\ s.count = 2
          /\ s.sh.num_glyphs = 1
          /\ job.value.mAdvances = <<(<<s.sh.advances[1], FixedOne>>), (<<0, FixedOne>>)>>
          /\ job.value.mTotalAdvance[1] = s.sh.advances[1]

\* glyph j (from 0) a run appends: the shaper's glyph j, or n-1-j when RTL
ExpectedGlyph(s, j) ==
    IF s.isRTL THEN s.sh.glyphs[s.sh.num_glyphs - j] ELSE s.sh.glyphs[j + 1]

\* C13: every run shaped with glyphs appends exactly num_glyphs glyph ids,
\* in the shaper's order when LTR and in reverse order when RTL, after the
\* glyphs of the earlier runs, which stay as they were.
C13_GlyphOrder ==
    ShapeDone =>
        /\ \A k \in 1..Len(job.value.shaped) :
               LET s == job.value.shaped[k]
               IN IF NonEmptyResult(s)
                  THEN /\ \A j \in 0..(s.sh.num_glyphs - 1) :
                              job.value.mGlyphs[s.glyphAt + j + 1] = ExpectedGlyph(s, j)
                       /\ k < Len(job.value.shaped) =>
                              job.value.shaped[k + 1].glyphAt
                                  = s.glyphAt + s.sh.num_glyphs
                       /\ k = Len(job.value.shaped) =>
                              Len(job.value.mGlyphs) = s.glyphAt + s.sh.num_glyphs
                  ELSE /\ k < Len(job.value.shaped) =>
                              job.value.shaped[k + 1].glyphAt = s.glyphAt
                       /\ k = Len(job.value.shaped) =>
                              Len(job.value.mGlyphs) = s.glyphAt
        /\ job.value.shaped # <<>> => job.value.shaped[1].glyphAt = 0

\* C13 witness: an RTL run of two glyphs appended in reverse order after the
\* glyphs of an earlier run
C13_Witness ==
    /\ ShapeDone
    /\ Len(job.value.shaped) = 2
    /\ NonEmptyResult(job.value.shaped[1])
    /\ LET s == job.value.shaped[2]
       IN /\ s.isRTL
          /\ s.sh.num_glyphs = 2
          /\ s.sh.glyphs[1] # s.sh.glyphs[2]
          /\ GlyphsOfCall(job.value, s) = <<s.sh.glyphs[2], s.sh.glyphs[1]>>

ForceMode == job.dirFlags \in {kBidi_Force_LTR, kBidi_Force_RTL}

\* computeValues shaped exactly one run, over [0, contextCount), as isRTL
ShapedOneRun(isRTL) ==
    /\ Len(job.value.shaped) = 1
    /\ job.value.shaped[1].count = job.contextCount
    /\ job.value.shaped[1].advAt = 0
    /\ job.value.shaped[1].isRTL = isRTL

\* C14: when the direction mode is not a Force mode and the bidi resolver
\* cannot be opened, computeValues shapes exactly one run over
\* [0, contextCount), RTL exactly when the mode is RTL or DefaultRTL.
C14_FallbackDirection ==
    ShapeDone /\ ~ForceMode /\ ~job.env.open =>
        ShapedOneRun(job.dirFlags \in {kBidi_RTL, kBidi_Default_RTL})

\* C15: when the bidi resolver is opened but setting the paragraph or
\* counting the runs reports a non-OK status, computeValues shapes exactly
\* one run over [0, contextCount), RTL exactly when the paragraph level is
\* odd; it never returns without shaping a run.
C15_BidiFailureDegrades ==
    ShapeDone /\ ~ForceMode /\ job.env.open
              /\ (~job.env.setParaOK \/ ~job.env.countOK) =>
        ShapedOneRun(job.env.paraLevel % 2 = 1)

\* the glyph indices whose log cluster is at most c
GlyphsUpTo(v, c) == {i \in 0..(Len(v.mGlyphs) - 1) : v.mLogClusters[i + 1] <= c}

\* the largest element of a non-empty set of indices
Largest(S) == CHOOSE i \in S : \A j \in S : j <= i

\* C16: getGlyphsIndexAndCount(start, count) returns (0, 0) when count = 0;
\* otherwise the start index is the largest glyph index whose log cluster is
\* at most start and the count is end - start index + 1, with end the
\* largest glyph index whose log cluster is at most start + count.
C16_GlyphRange ==
    job.phase = "queried" =>
        IF job.count = 0
        THEN job.range = [outStartIndex |-> 0, outGlyphsCount |-> 0]
        ELSE LET S == GlyphsUpTo(job.value, job.start)
                 E == GlyphsUpTo(job.value, job.start + job.count)
             IN /\ S # {}
                /\ job.range.outStartIndex = Largest(S)
                /\ job.range.outGlyphsCount = Largest(E) - Largest(S) + 1


(***************************************************************************)
(* SpecShaper: one call of computeRunValuesWithHarfbuzz, statement by      *)
(* statement, with the buffers it owns.  job holds                         *)
(*   phase       "call", "shape" (about to call HB_ShapeItem), "resize",   *)
(*               "project" (the shaper succeeded), "returned"              *)
(*   contextCount, need   the text length and the number of glyphs the     *)
(*               shaper needs for the run                                  *)
(*   num_glyphs  shaperItem.num_glyphs                                     *)
(*   cap         the slots of the glyph-side arrays (glyphs, attributes,   *)
(*               advances, offsets) shaperItem points to                   *)
(*   arrays, face   "none", "live" or "freed": what shaperItem's array     *)
(*               pointers and face handle point to                         *)
(*   leaked      live arrays or a live face were overwritten by new ones   *)
(*   doubleFree  arrays or a face already freed were freed again           *)
(*   usedFreed   arrays or a face that were not live were read or written  *)
(*   retries     calls of HB_ShapeItem that failed, up to MaxRetries       *)
(***************************************************************************)
\* createGlyphArrays, lines 577-583
createGlyphArrays(j, size) ==
    [j EXCEPT !.leaked = @ \/ j.arrays = "live",
              !.arrays = "live",
              !.cap = size,
              !.num_glyphs = size]

\* a cleanup that forgets the arrays
deleteGlyphArraysNot(j) == j

\* deleteGlyphArrays, lines 570-575
deleteGlyphArrays(j) ==
    [j EXCEPT !.doubleFree = @ \/ j.arrays = "freed",
              !.arrays = IF @ = "none" THEN "none" ELSE "freed"]

\* resetGlyphArrays, lines 585-593: writes num_glyphs slots of the arrays
resetGlyphArrays(j) ==
    [j EXCEPT !.usedFreed = @ \/ j.arrays # "live" \/ j.num_glyphs > j.cap]

\* HB_FreeFace(shaperItem.face), lines 511 and 567
freeFace(j) ==
    [j EXCEPT !.doubleFree = @ \/ j.face = "freed",
              !.face = "freed"]

\* a retry with arrays of half the reported size
ResizedCapacityHalf(num_glyphs) == num_glyphs \div 2

\* line 382: shaperItem->num_glyphs << 1
ResizedCapacity(num_glyphs) == num_glyphs * 2

\* line 342: the first guess
InitialCapacity(contextCount) == (contextCount + 2) * 2

InitShaper ==
    /\ InitCache
    /\ thr = <<>>
    /\ \E n \in 0..MaxCount, need \in 0..MaxNeed :
           job = [phase |-> "call", contextCount |-> n, need |-> need,
                  num_glyphs |-> 0, cap |-> 0, arrays |-> "none", face |-> "none",
                  leaked |-> FALSE, doubleFree |-> FALSE, usedFreed |-> FALSE,
                  retries |-> 0, reported |-> 0]

\* setupShaperItem and the first resetGlyphArrays, lines 373-377: the face,
\* the glyph-side arrays and the log clusters are allocated
SetupShaperItem ==
    /\ job.phase = "call"
    /\ job' = resetGlyphArrays(createGlyphArrays(
                  [job EXCEPT !.phase = "shape",
                              !.leaked = @ \/ job.face = "live",
                              !.face = "live"],
                  InitialCapacity(job.contextCount)))
    /\ UNCHANGED <<mCache, mSize, mMaxSize, mCacheHitCount, mDebugEnabled, last,
                   mLock, thr>>

\* line 378, HB_ShapeItem returns false: the arrays are too small and
\* num_glyphs is set to the number of glyphs found to be needed so far
ShapeItemOverflows(required) ==
    /\ job.phase = "shape"
    /\ job.num_glyphs < job.need
    /\ required > job.num_glyphs
    /\ required <= job.need
    /\ job' = [job EXCEPT !.phase = "resize",
                          !.num_glyphs = required,
                          !.reported = required,
                          !.usedFreed = @ \/ job.arrays # "live" \/ job.face # "live",
                          !.retries = IF @ < MaxRetries THEN @ + 1 ELSE @]
    /\ UNCHANGED <<mCache, mSize, mMaxSize, mCacheHitCount, mDebugEnabled, last,
                   mLock, thr>>

\* lines 381-383: resize and retry
ResizeGlyphArrays ==
    /\ job.phase = "resize"
    /\ job' = resetGlyphArrays(createGlyphArrays(
                  deleteGlyphArrays([job EXCEPT !.phase = "shape"]),
                  ResizedCapacity(job.num_glyphs)))
    /\ UNCHANGED <<mCache, mSize, mMaxSize, mCacheHitCount, mDebugEnabled, last,
                   mLock, thr>>

\* line 378, HB_ShapeItem returns true: the arrays hold the glyphs
ShapeItemSucceeds ==
    /\ job.phase = "shape"
    /\ job.num_glyphs >= job.need
    /\ job' = [job EXCEPT !.phase = "project",
                          !.num_glyphs = job.need,
                          !.usedFreed = @ \/ job.arrays # "live" \/ job.face # "live"]
    /\ UNCHANGED <<mCache, mSize, mMaxSize, mCacheHitCount, mDebugEnabled, last,
                   mLock, thr>>

\* lines 502-513: nothing to project
ProjectEmpty ==
    /\ job.phase = "project"
    /\ job.arrays = "none" \/ job.num_glyphs = 0
    /\ job' = freeFace(deleteGlyphArrays([job EXCEPT !.phase = "returned"]))
    /\ UNCHANGED <<mCache, mSize, mMaxSize, mCacheHitCount, mDebugEnabled, last,
                   mLock, thr>>

\* lines 515-567: the advances, glyphs and log clusters are read, then the
\* arrays and the face are released
ProjectRun ==
    /\ job.phase = "project"
    /\ ~(job.arrays = "none" \/ job.num_glyphs = 0)
    /\ job' = freeFace(deleteGlyphArrays(
                  [job EXCEPT !.phase = "returned",
                              !.usedFreed = @ \/ job.arrays # "live"]))
    /\ UNCHANGED <<mCache, mSize, mMaxSize, mCacheHitCount, mDebugEnabled, last,
                   mLock, thr>>

NextShaper ==
    \/ SetupShaperItem
    \/ \E required \in 1..MaxNeed : ShapeItemOverflows(required)
    \/ ResizeGlyphArrays
    \/ ShapeItemSucceeds
    \/ ProjectEmpty
    \/ ProjectRun

SpecShaper == InitShaper /\ [][NextShaper]_vars

\* the thread that runs the call keeps running
SpecShaperFair == SpecShaper /\ WF_vars(NextShaper)

\* C19: on every exit path of a run computation (success, the early
\* empty-result return, after any number of retries) every set of
\* glyph-side arrays that was allocated is released exactly once and so is
\* the face; nothing is released twice or used after release.
C19_BuffersReleasedOnce ==
    /\ ~job.leaked
    /\ ~job.doubleFree
    /\ ~job.usedFreed
    /\ job.phase \in {"shape", "resize", "project"} =>
           job.arrays = "live" /\ job.face = "live"
    /\ job.phase = "returned" => job.arrays = "freed" /\ job.face = "freed"

\* C19 witness: the call returned after two retries
C19_Witness ==
    /\ job.phase = "returned"
    /\ job.retries = 2
    /\ job.num_glyphs > 0

\* C20: the retry loop starts with 2 * (contextCount + 2) slots, every
\* failed shape call is followed by a reallocation at twice the glyph count
\* the shaper reported, and with a shaper that succeeds whenever the arrays
\* hold the glyphs it needs the loop ends with a successful shape.
C20_RetryTerminates ==
    /\ [](job.phase = "shape" /\ job.retries = 0 =>
              job.cap = 2 * (job.contextCount + 2))
    /\ [](job.phase = "shape" /\ job.retries > 0 => job.cap = 2 * job.reported)
    /\ <>(job.phase = "project" /\ job.num_glyphs = job.need)

\* C20 witness: the shaper succeeded after it had failed twice
C20_Witness ==
    /\ job.phase = "project"
    /\ job.retries = 2
    /\ job.cap >= job.need


(***************************************************************************)
(* SpecKey: two keys are built for two texts, the left one may be copied   *)
(* (a key passed or stored by value), the right one may take its own copy  *)
(* of the text (a key about to be stored), and they are compared.          *)
(* job holds the keys l and r, the code units each was built for (ltext,   *)
(* rtext) and the results of l < r and r < l.                              *)
(***************************************************************************)
\* code units of the keys' texts
KeyUnits == {0, 65}

KeyTexts == UNION {[1..n -> KeyUnits] : n \in 0..MaxCount}

KeyPaints == {[ThePaint EXCEPT !.typeface = t] : t \in {1, 2}}

KeyDirs == {kBidi_LTR, kBidi_RTL}

\* what follows the caller's text in memory, up to a NUL
KeyBeyond == {<<0>>, <<66, 0>>}

\* what follows a String16's terminator in memory: MaxCount units
KeySlack == {[i \in 1..MaxCount |-> g] : g \in {0, 65, 66}}

InitKey ==
    /\ InitCache
    /\ thr = <<>>
    /\ \E lt \in KeyTexts, rt \in KeyTexts, lp \in KeyPaints, rp \in KeyPaints,
          ld \in KeyDirs, rd \in KeyDirs :
           job = [phase |-> "keys", ltext |-> lt, rtext |-> rt,
                  l |-> TextLayoutCacheKey(lp, lt, Len(lt), ld),
                  r |-> TextLayoutCacheKey(rp, rt, Len(rt), rd),
                  copied |-> FALSE, less |-> FALSE, greater |-> FALSE]

\* the left key is copy-constructed, lines 238-252
KeyCopy(beyond, slack) ==
    /\ job.phase = "keys"
    /\ ~job.copied
    /\ job' = [job EXCEPT !.l = CopyKey(job.l, beyond, slack), !.copied = TRUE]
    /\ UNCHANGED <<mCache, mSize, mMaxSize, mCacheHitCount, mDebugEnabled, last,
                   mLock, thr>>

\* the right key takes its copy of the text, line 153
KeyInternalTextCopy ==
    /\ job.phase = "keys"
    /\ job.r.text # NULL
    /\ job' = [job EXCEPT !.r = internalTextCopy(job.r)]
    /\ UNCHANGED <<mCache, mSize, mMaxSize, mCacheHitCount, mDebugEnabled, last,
                   mLock, thr>>

\* l < r and r < l, lines 254-274
KeyCompare ==
    /\ job.phase = "keys"
    /\ job' = [job EXCEPT !.phase = "compared",
                          !.less = KeyLess(job.l, job.r),
                          !.greater = KeyLess(job.r, job.l)]
    /\ UNCHANGED <<mCache, mSize, mMaxSize, mCacheHitCount, mDebugEnabled, last,
                   mLock, thr>>

NextKey ==
    \/ \E beyond \in KeyBeyond, slack \in KeySlack : KeyCopy(beyond, slack)
    \/ KeyInternalTextCopy
    \/ KeyCompare

SpecKey == InitKey /\ [][NextKey]_vars

RECURSIVE BytesLess(_, _, _)
\* memcmp order of two sequences of 16-bit units from byte i on; a sequence
\* that is a prefix of the other comes first
BytesLess(a, b, i) ==
    IF i >= SizeofUChar * Len(a) THEN i < SizeofUChar * Len(b)
    ELSE IF i >= SizeofUChar * Len(b) THEN FALSE
    ELSE LET ua == a[(i \div 2) + 1]
             ub == b[(i \div 2) + 1]
             ba == IF i % 2 = 0 THEN ua % 256 ELSE ua \div 256
             bb == IF i % 2 = 0 THEN ub % 256 ELSE ub \div 256
         IN IF ba # bb THEN ba < bb ELSE BytesLess(a, b, i + 1)

\* the fields after the code units, in the order of the claim
FieldsOf(k) ==
    <<k.typeface, k.textSize, k.textSkewX, k.textScaleX, k.flags, k.hinting,
      k.dirFlags>>

\* lexicographic order of two tuples of numbers of the same length
TupleLess(x, y) ==
    \E i \in 1..Len(x) : x[i] < y[i] /\ \A j \in 1..(i - 1) : x[j] = y[j]

\* C17: operator< is the lexicographic order over code_units (by memcmp),
\* typeface, textSize, textSkewX, textScaleX, flags, hinting, dirFlags; two
\* keys are equivalent (neither is less than the other) exactly when all
\* these fields are equal and the code-unit sequences are identical in
\* length and content.
C17_KeyOrder ==
    job.phase = "compared" =>
        /\ job.less = (\/ BytesLess(job.ltext, job.rtext, 0)
                       \/ /\ job.ltext = job.rtext
                          /\ TupleLess(FieldsOf(job.l), FieldsOf(job.r)))
        /\ (~job.less /\ ~job.greater)
               = (job.ltext = job.rtext /\ FieldsOf(job.l) = FieldsOf(job.r))


(***************************************************************************)
(* SpecConc: threads calling the public operations, one statement group    *)
(* at a time; every thread makes one call.  getValue runs under            *)
(* AutoMutex _l(mLock) (line 110); setMaxSize and clear (lines 73-103)     *)
(* take no lock.                                                           *)
(*                                                                         *)
(* thr[t] holds the thread's position and locals:                          *)
(*   pc        "idle" before the call, the next step of the operation      *)
(*             `op` during it, "done" after it                             *)
(*   text, dirFlags, arg   the arguments of the call                       *)
(*   value, size           the locals of getValue                          *)
(*   computed  this call ran computeValues                                 *)
(*   hit       this call found the key                                     *)
(*   ins       what became of the entry this call computed: "none",        *)
(*             "oversize" (not admitted), "admitted", "removed" (admitted  *)
(*             and dropped from the store since)                           *)
(*   behind    the holder of the mutex when getValue was called (0: free)  *)
(***************************************************************************)
Threads == 1..MaxThreads

\* thread 1 calls setMaxSize and clear, the other threads call getValue
Maintainer == 1
Callers == Threads \ {Maintainer}

\* texts and budgets of the concurrent callers
ConcTexts == {<<>>, <<65>>}
ConcMaxSizes == {120, 130}

ConcEnv(contextCount) ==
    EnvOf(TRUE, TRUE, 0, TRUE, OneRun(contextCount, FALSE), <<ShPlain(contextCount)>>)

IdleThread ==
    [pc |-> "idle", op |-> "none", text |-> <<>>, dirFlags |-> 0, arg |-> 0,
     value |-> NULL, size |-> 0, computed |-> FALSE, hit |-> FALSE,
     ins |-> "none", behind |-> 0]

DoneThread == [IdleThread EXCEPT !.pc = "done"]

InitConc ==
    /\ InitCache
    /\ thr = [t \in Threads |-> IdleThread]
    /\ job = [phase |-> "idle"]

ThreadKey(t) ==
    TextLayoutCacheKey(ThePaint, thr[t].text, Len(thr[t].text), thr[t].dirFlags)

\* the threads whose admitted entry is one of `entries` learn that it is gone
MarkRemoved(th, entries) ==
    [u \in Threads |->
        IF /\ th[u].ins = "admitted"
           /\ \E i \in 1..Len(entries) :
                  KeyEquiv(entries[i].key,
                           TextLayoutCacheKey(ThePaint, th[u].text, Len(th[u].text),
                                              th[u].dirFlags))
        THEN [th[u] EXCEPT !.ins = "removed"]
        ELSE th[u]]

\* the mutex can be taken
CanLockAlways(lock, t) == TRUE

\* AutoMutex _l(mLock), line 110: the mutex can be taken
CanLock(lock, t) == lock = 0

\* one mCache.removeOldest() by thread t
ConcRemoveOldest(t, pcAfter) ==
    LET c == RemoveOldest(CacheNow)
    IN /\ mCache' = c.mCache
       /\ mSize' = c.mSize
       /\ thr' = MarkRemoved([thr EXCEPT ![t].pc = pcAfter], c.removed)

\* a thread calls getValue(paint, text, count, dirFlags)
GvCall(t, text, dirFlags) ==
    /\ t \in Callers
    /\ thr[t].pc = "idle"
    /\ thr' = [thr EXCEPT ![t] = [IdleThread EXCEPT
                  !.pc = "gv_lock", !.op = "getValue", !.text = text,
                  !.dirFlags = dirFlags, !.behind = mLock]]
    /\ UNCHANGED <<mCache, mSize, mMaxSize, mCacheHitCount, mDebugEnabled, last,
                   mLock, job>>

\* line 110
GvLock(t) ==
    /\ thr[t].pc = "gv_lock"
    /\ CanLock(mLock, t)
    /\ mLock' = t
    /\ thr' = [thr EXCEPT ![t].pc = "gv_get"]
    /\ UNCHANGED <<mCache, mSize, mMaxSize, mCacheHitCount, mDebugEnabled, last, job>>

\* lines 117-123
GvGet(t) ==
    /\ thr[t].pc = "gv_get"
    /\ LET found == CacheGet(mCache, ThreadKey(t))
       IN thr' = [thr EXCEPT
                    ![t].value = found,
                    ![t].hit = found # NULL,
                    ![t].pc = IF found = NULL THEN "gv_compute" ELSE "gv_hit"]
    /\ UNCHANGED <<mCache, mSize, mMaxSize, mCacheHitCount, mDebugEnabled, last,
                   mLock, job>>

\* lines 128-137 and 166-176
GvCompute(t) ==
    /\ thr[t].pc = "gv_compute"
    /\ LET count == Len(thr[t].text)
           value == <<computeValues(count, thr[t].dirFlags, ConcEnv(count))>>
           size == KeyGetSize(ThreadKey(t)) + ValueGetSize(value[1])
       IN thr' = [thr EXCEPT
                    ![t].computed = TRUE,
                    ![t].size = size,
                    ![t].value = IF Fits(size, mMaxSize) THEN value ELSE NULL,
                    ![t].ins = IF Fits(size, mMaxSize) THEN "none" ELSE "oversize",
                    ![t].pc = IF Fits(size, mMaxSize) THEN "gv_room" ELSE "gv_unlock"]
    /\ UNCHANGED <<mCache, mSize, mMaxSize, mCacheHitCount, mDebugEnabled, last,
                   mLock, job>>

\* lines 139-147: one test of the loop condition, and one removeOldest
GvRoom(t) ==
    /\ thr[t].pc = "gv_room"
    /\ IF NeedsRoom(mSize, thr[t].size, mMaxSize)
       THEN ConcRemoveOldest(t, "gv_room")
       ELSE /\ thr' = [thr EXCEPT ![t].pc = "gv_size"]
            /\ UNCHANGED <<mCache, mSize>>
    /\ UNCHANGED <<mMaxSize, mCacheHitCount, mDebugEnabled, last, mLock, job>>

\* line 150: mSize += size
GvSize(t) ==
    /\ thr[t].pc = "gv_size"
    /\ mSize' = mSize + thr[t].size
    /\ thr' = [thr EXCEPT ![t].pc = "gv_put"]
    /\ UNCHANGED <<mCache, mMaxSize, mCacheHitCount, mDebugEnabled, last, mLock, job>>

\* lines 152-154
GvPut(t) ==
    /\ thr[t].pc = "gv_put"
    /\ mCache' = CachePut(mCache, internalTextCopy(ThreadKey(t)), thr[t].value)
    /\ thr' = [MarkRemoved(thr, SelectSeq(mCache,
                                 LAMBDA e : KeyEquiv(e.key, ThreadKey(t))))
                  EXCEPT ![t].ins = "admitted", ![t].pc = "gv_unlock"]
    /\ UNCHANGED <<mSize, mMaxSize, mCacheHitCount, mDebugEnabled, last, mLock, job>>

\* lines 177-198
GvHit(t) ==
    /\ thr[t].pc = "gv_hit"
    /\ mDebugEnabled => mCacheHitCount < MaxHits
    /\ mCacheHitCount' = IF mDebugEnabled THEN mCacheHitCount + 1 ELSE mCacheHitCount
    /\ thr' = [thr EXCEPT ![t].pc = "gv_unlock"]
    /\ UNCHANGED <<mCache, mSize, mMaxSize, mDebugEnabled, last, mLock, job>>

\* line 199-200: _l goes out of scope
GvUnlock(t) ==
    /\ thr[t].pc = "gv_unlock"
    /\ mLock' = IF mLock = t THEN 0 ELSE mLock
    /\ thr' = [thr EXCEPT ![t].pc = "gv_ret"]
    /\ UNCHANGED <<mCache, mSize, mMaxSize, mCacheHitCount, mDebugEnabled, last, job>>

\* the caller has the result
GvReturn(t) ==
    /\ thr[t].pc = "gv_ret"
    /\ thr' = [thr EXCEPT ![t] = DoneThread]
    /\ UNCHANGED <<mCache, mSize, mMaxSize, mCacheHitCount, mDebugEnabled, last,
                   mLock, job>>

\* a thread calls setMaxSize(maxSize)
SmCall(t, maxSize) ==
    /\ t = Maintainer
    /\ thr[t].pc = "idle"
    /\ thr' = [thr EXCEPT ![t] = [IdleThread EXCEPT
                  !.pc = "sm_set", !.op = "setMaxSize", !.arg = maxSize]]
    /\ UNCHANGED <<mCache, mSize, mMaxSize, mCacheHitCount, mDebugEnabled, last,
                   mLock, job>>

\* line 74
SmSet(t) ==
    /\ thr[t].pc = "sm_set"
    /\ mMaxSize' = thr[t].arg
    /\ thr' = [thr EXCEPT ![t].pc = "sm_loop"]
    /\ UNCHANGED <<mCache, mSize, mCacheHitCount, mDebugEnabled, last, mLock, job>>

\* lines 79-81: one test of the loop condition, and one removeOldest
SmLoop(t) ==
    /\ thr[t].pc = "sm_loop"
    /\ IF NeedsRoom(mSize, 0, mMaxSize)
       THEN ConcRemoveOldest(t, "sm_loop")
       ELSE /\ thr' = [thr EXCEPT ![t] = DoneThread]
            /\ UNCHANGED <<mCache, mSize>>
    /\ UNCHANGED <<mMaxSize, mCacheHitCount, mDebugEnabled, last, mLock, job>>

\* a thread calls clear()
ClCall(t) ==
    /\ t = Maintainer
    /\ thr[t].pc = "idle"
    /\ thr' = [thr EXCEPT ![t] = [IdleThread EXCEPT
                  !.pc = "cl_callbacks", !.op = "clear"]]
    /\ UNCHANGED <<mCache, mSize, mMaxSize, mCacheHitCount, mDebugEnabled, last,
                   mLock, job>>

\* line 102, first half: the callback runs on every entry; it lowers mSize
\* and clears the entry's value (desc.clear(), line 94)
ClCallbacks(t) ==
    /\ thr[t].pc = "cl_callbacks"
    /\ mSize' = ClearAll(CacheNow).mSize
    /\ mCache' = [i \in 1..Len(mCache) |-> [mCache[i] EXCEPT !.value = NULL]]
    /\ thr' = MarkRemoved([thr EXCEPT ![t].pc = "cl_clear"], mCache)
    /\ UNCHANGED <<mMaxSize, mCacheHitCount, mDebugEnabled, last, mLock, job>>

\* line 102, second half: the store is emptied
ClClear(t) ==
    /\ thr[t].pc = "cl_clear"
    /\ mCache' = <<>>
    /\ thr' = MarkRemoved([thr EXCEPT ![t] = DoneThread], mCache)
    /\ UNCHANGED <<mSize, mMaxSize, mCacheHitCount, mDebugEnabled, last, mLock, job>>

NextConc ==
    \E t \in Threads :
        \/ \E text \in ConcTexts, dirFlags \in CacheDirs : GvCall(t, text, dirFlags)
        \/ GvLock(t)
        \/ GvGet(t)
        \/ GvCompute(t)
        \/ GvRoom(t)
        \/ GvSize(t)
        \/ GvPut(t)
        \/ GvHit(t)
        \/ GvUnlock(t)
        \/ GvReturn(t)
        \/ \E maxSize \in ConcMaxSizes : SmCall(t, maxSize)
        \/ SmSet(t)
        \/ SmLoop(t)
        \/ ClCall(t)
        \/ ClCallbacks(t)
        \/ ClClear(t)

SpecConc == InitConc /\ [][NextConc]_vars


(***************************************************************************)
(* Properties of the concurrent callers, checked under SpecConc.           *)
(***************************************************************************)
\* t and u are both inside getValue calls for the same key
SameKeyCalls(t, u) ==
    /\ t # u
    /\ thr[t].op = "getValue"
    /\ thr[u].op = "getValue"
    /\ KeyEquiv(ThreadKey(t), ThreadKey(u))

\* C8 as stated: when a thread calls getValue while another thread holds the
\* mutex inside a getValue call for the same key that misses, computeValues
\* runs only once for that key: the caller that waited gets a hit.
C8_SingleFlight ==
    \A t, u \in Threads :
        SameKeyCalls(t, u) /\ thr[u].behind = t /\ thr[t].computed
            => ~thr[u].computed

\* C8 amended: two overlapping getValue calls for the same key both run
\* computeValues only when the entry of one of them was not kept: it was
\* larger than mMaxSize, or it was removed from the store (by clear,
\* setMaxSize or an eviction) before the other call looked the key up.
C8_SingleFlightIfKept ==
    \A t, u \in Threads :
        SameKeyCalls(t, u) /\ thr[t].computed /\ thr[u].computed
            => \/ thr[t].ins \in {"oversize", "removed"}
               \/ thr[u].ins \in {"oversize", "removed"}

\* C8 witness: u called while t held the mutex, t computed and inserted the
\* entry, and u then got a hit without computing
C8_Witness ==
    \E t, u \in Threads :
        /\ SameKeyCalls(t, u)
        /\ thr[t].computed
        /\ thr[t].ins = "admitted"
        /\ thr[u].behind = t
        /\ thr[u].hit
        /\ ~thr[u].computed

\* the positions at which a thread reads or writes the store, mSize,
\* mMaxSize or the statistics
SharedPcs ==
    {"gv_get", "gv_compute", "gv_room", "gv_size", "gv_put", "gv_hit",
     "sm_set", "sm_loop", "cl_callbacks", "cl_clear"}

\* C9: every public operation (getValue, setMaxSize, clear) touches the
\* shared cache state only while its thread holds the mutex, so no two
\* threads are in such a step at the same time.
C9_MutationsUnderMutex ==
    /\ \A t \in Threads : thr[t].pc \in SharedPcs => mLock = t
    /\ \A t, u \in Threads :
           t # u => ~(thr[t].pc \in SharedPcs /\ thr[u].pc \in SharedPcs)

\* thread t is at the test of an eviction loop and the test holds
LoopConditionHolds(t) ==
    \/ thr[t].pc = "sm_loop" /\ NeedsRoom(mSize, 0, mMaxSize)
    \/ thr[t].pc = "gv_room" /\ NeedsRoom(mSize, thr[t].size, mMaxSize)

\* a step in which an eviction loop calls removeOldest: the loop's test
\* holds and no thread moves to another statement
EvictionStep ==
    /\ \E t \in Threads : LoopConditionHolds(t)
    /\ \A t \in Threads : thr'[t].pc = thr[t].pc

\* C21: the eviction loops terminate and never call removeOldest on an
\* empty store: whenever the condition of the loop of removeOldests
\* (mSize > mMaxSize) or of getValue (mSize + size > mMaxSize) holds the
\* store is not empty, and each removeOldest makes mSize strictly smaller
\* without taking it below zero.
C21_EvictionLoopsTerminate ==
    /\ [](\A t \in Threads : LoopConditionHolds(t) => mCache # <<>>)
    /\ [](mSize >= 0)
    /\ [][EvictionStep => mSize' < mSize]_vars

(***************************************************************************)
(* The indices computeRunValuesWithHarfbuzz reads while it projects a run  *)
(* of `count` code units out of the shaper's answer sh.                     *)
(***************************************************************************)
\* lines 516-522: log_clusters[0], then log_clusters[i - 1] and
\* log_clusters[i] for i in [1, count)
AdvancesLoopReads(count) ==
    {0} \cup UNION {{i - 1, i} : i \in 1..(count - 1)}

\* lines 555-557: log_clusters[i] for i in [0, countGlyphs)
LogClustersLoopReads(sh) == 0..(sh.num_glyphs - 1)

\* lines 516 and 525: advances[log_clusters[0]], then
\* advances[log_clusters[i]] where the cluster differs from the previous one
AdvancesReads(sh, count) ==
    {LogClusterAt(sh, 0)} \cup
    {LogClusterAt(sh, i) : i \in {j \in 1..(count - 1) :
                                     LogClusterAt(sh, j) # LogClusterAt(sh, j - 1)}}

\* C22: while a run is projected, every read of the shaper's log-cluster
\* buffer uses an index smaller than the buffer's size contextCount, in the
\* advances loop and in the log-cluster loop over [0, num_glyphs) alike, and
\* every advances[log_clusters[i]] read uses an index within the capacity of
\* the glyph-side buffers.
C22_ProjectionReadsInBounds ==
    job.phase # "input" =>
        \A k \in 1..Len(job.value.shaped) :
            LET s == job.value.shaped[k]
            IN (~s.sh.nullAdvances /\ s.sh.num_glyphs # 0) =>
                 /\ \A i \in AdvancesLoopReads(s.count) :
                        i < Len(s.sh.log_clusters)
                 /\ \A i \in LogClustersLoopReads(s.sh) :
                        i < Len(s.sh.log_clusters)
                 /\ \A c \in AdvancesReads(s.sh, s.count) : c < s.sh.cap

\* C23: for every computed value and every (start, count) the glyph range
\* returned by getGlyphsIndexAndCount lies inside the value's glyph list:
\* start index + glyph count <= number of glyphs (so the count is 0 when
\* the glyph list is empty), and the count never underflows (the end index
\* is never below the start index).
C23_GlyphRangeInside ==
    job.phase = "queried" =>
        /\ job.range.outStartIndex + job.range.outGlyphsCount
               <= Len(job.value.mGlyphs)
        /\ job.value.mGlyphs = <<>> => job.range.outGlyphsCount = 0
        /\ job.count # 0 => job.range.outGlyphsCount >= 1

====
